---- MODULE Spec2Model ----
(***************************************************************************)
(* The batch member-migration workflow of src/bot.py: the slash commands   *)
(* /transfer (VerificationCog.transfer_users) and /restore                 *)
(* (VerificationCog.restore_members).  One invocation is modelled as a     *)
(* coroutine whose position is pc; every action is the code that runs      *)
(* when one awaited external call returns or raises, up to the next await. *)
(***************************************************************************)
EXTENDS Integers, Sequences, FiniteSets, TLC

\* Longest API answer in which every record shape is enumerated.
MaxUsers == 3

\* Length of the one long, uniform API answer (enough for a progress update).
LongLen == 11

\* "Update progress every 10 users": the modulus of lines 444 and 598.
ProgressEvery == 10

\* Largest limit argument enumerated (the code allows 0..1000 and 0..500).
MaxLimit == MaxUsers + 1

\* Longest candidate list of each of two interleaved invocations.
PairLen == 2

VARIABLES
    pc,             \* position of the coroutine
    cmd,            \* the command's arguments and what the bot knows of the source guild
    fetchStatus,    \* outcome of the candidate fetch: "none", "ok", "non200", "raised"
    api,            \* the member list the API returned
    users,          \* the local variable users
    idx,            \* 1-based position of the for loop in users
    succeeded,      \* transferred (transfer) / restored_count (restore)
    already_member, \* already_member (transfer only)
    failed,         \* failed (transfer) / failed_count (restore)
    usernameBound,  \* restore: the local username has been assigned
    cur,            \* the member object the current lookup returned
    side,           \* outcome of the best-effort side call for the current candidate
    delays,         \* asyncio.sleep(0.5) calls completed
    pending,        \* the followup.send about to be awaited, and the try block it is in
    sent,           \* messages handed to the interaction, per kind
    shown,          \* messages the platform accepted (visible to the user), per kind
    sendFails,      \* deliveries that raised, per channel
    calls,          \* per-candidate external calls issued, per kind
    seen,           \* per-candidate outcomes observed so far, per kind
    frames,         \* two interleaved invocations: each coroutine's locals but its counters
    jobCounters,    \* two interleaved invocations: each coroutine's counters
    answers         \* two interleaved invocations: the responses each one received

\* The state of two invocations that run interleaved on the same bot.
pairVars == <<frames, jobCounters, answers>>

\* The state of one invocation followed call by call.
soloVars == <<pc, cmd, fetchStatus, api, users, idx, succeeded, already_member, failed,
              usernameBound, cur, side, delays,
              pending, sent, shown, sendFails, calls, seen>>

vars == <<soloVars, pairVars>>

\* ---------------------------------------------------------------- data

\* A MemberRecord as the loop reads it: discord_id (idOk: int() accepts it)
\* and the restored flag.
MemberRecord(i, r, ok) == [id |-> i, restored |-> r, idOk |-> ok]

ShortLists(flags) ==
    UNION { { [i \in 1..n |-> MemberRecord(i, f[i][1], f[i][2])] :
                f \in [1..n -> flags \X BOOLEAN] } : n \in 1..MaxUsers }

LongList == [i \in 1..LongLen |-> MemberRecord(i, FALSE, TRUE)]

\* data.get('members', []) of GET /api/dashboard/server/{id}/members
TransferAnswers == {<<>>} \cup ShortLists({FALSE}) \cup {LongList}

\* data.get('users', []) of GET /api/bot/guild/{id}/verified
RestoreAnswers == {<<>>} \cup ShortLists(BOOLEAN) \cup {LongList}

MsgKinds == {"error", "nothing", "initial", "progress", "summary", "reply"}

NoCounts(S) == [k \in S |-> 0]

Bump(f, k) == [f EXCEPT ![k] = @ + 1]

NoCmd == [kind |-> "none", callerAdmin |-> TRUE, limit |-> 0, role |-> FALSE,
          delete_from_source |-> FALSE,
          srcIdOk |-> TRUE, srcKnown |-> TRUE, srcAdmin |-> TRUE]

\* The commands declared with @app_commands.checks.has_permissions(administrator=True).
Commands == {"send", "transfer", "restore", "config", "logs", "verify"}

NoPending == [kind |-> "none", ctx |-> "none"]

NoMember == [found |-> FALSE, hasRole |-> FALSE]

\* The invocations of the two-job specification.
Jobs == {1, 2}

\* A coroutine that has not been called yet.
NoFrame == [pc |-> "idle", kind |-> "none", role |-> FALSE, delete_from_source |-> FALSE,
            users |-> <<>>, i |-> 0, member |-> NoMember,
            reported |-> <<0, 0, 0>>]

\* transferred = 0 / already_member = 0 / failed = 0 (restored_count, failed_count)
ZeroCounters == [succeeded |-> 0, already_member |-> 0, failed |-> 0]

NoAnswers == [found |-> 0, lost |-> 0, roleOk |-> 0, roleErr |-> 0]

Init ==
    /\ pc = "idle"
    /\ cmd = NoCmd
    /\ fetchStatus = "none"
    /\ api = <<>>
    /\ users = <<>>
    /\ idx = 0
    /\ succeeded = 0
    /\ already_member = 0
    /\ failed = 0
    /\ usernameBound = FALSE
    /\ cur = NoMember
    /\ side = "none"
    /\ delays = 0
    /\ pending = NoPending
    /\ sent = NoCounts(MsgKinds)
    /\ shown = NoCounts(MsgKinds)
    /\ sendFails = NoCounts({"followup", "initial", "progress", "summary"})
    /\ calls = NoCounts({"lookup", "role", "srcLookup", "kick", "mark", "post", "channel"})
    /\ seen = NoCounts({"badId", "found", "notFound", "lookupErr", "roleOk", "roleErr"})
    /\ frames = [j \in Jobs |-> NoFrame]
    /\ jobCounters = [j \in Jobs |-> ZeroCounters]
    /\ answers = [j \in Jobs |-> NoAnswers]

\* ---------------------------------------------------------------- helpers

jobVars == <<fetchStatus, api, users>>

counters == <<succeeded, already_member, failed>>

outVars == <<sent, shown, sendFails>>

\* Variant: the slice keeps one element too many.
ApplyLimitOffByOne(us, limit) ==
    IF limit > 0 /\ limit < Len(us) THEN SubSeq(us, 1, limit + 1) ELSE us

\* users = users[:limit] under "if limit > 0 and limit < len(users)"
ApplyLimit(us, limit) ==
    IF limit > 0 /\ limit < Len(us) THEN SubSeq(us, 1, limit) ELSE us

\* [u for u in users if not u.get('restored', False)]
NotRestored(us) == SelectSeq(us, LAMBDA u : ~u.restored)

\* Variant: the test is made on the count before its increment.
ProgressDueBeforeIncrement(count) == (count - 1) % ProgressEvery = 0

\* "if transferred % 10 == 0" / "if restored_count % 10 == 0"
ProgressDue(count) == count % ProgressEvery = 0

\* Variant: the member's roles are not consulted.
NeedsRoleUnconditionally(role, member) == role

\* "if role and role not in member.roles"
NeedsRole(role, member) == role /\ ~member.hasRole

\* A followup.send is about to be awaited inside the try block ctx.
Followup(kind, ctx) ==
    /\ pc' = "send"
    /\ pending' = [kind |-> kind, ctx |-> ctx]

\* The command's outermost "except Exception": log, then try one followup.send.
OuterHandler == Followup("error", "outer")

\* The for loop moves to the next element, or ends.
NextCandidate ==
    /\ idx' = idx + 1
    /\ cur' = NoMember
    /\ side' = "none"
    /\ pc' = IF idx < Len(users) THEN "lookup" ELSE "final"

\* Variant: the per-candidate handler only logs.
CandidateFailedUncounted ==
    /\ UNCHANGED failed
    /\ NextCandidate

\* Variant: a failed candidate is tried again.
CandidateFailedRetried ==
    /\ failed' = failed + 1
    /\ idx' = idx
    /\ cur' = NoMember
    /\ side' = "none"
    /\ pc' = "lookup"

\* The per-candidate "except Exception": failed += 1, then the next element.
CandidateFailed ==
    /\ failed' = failed + 1
    /\ NextCandidate

\* ---------------------------------------------------------------- entry

\* Variant: the command is declared without the permission check.
HasPermissionsUnchecked(callerAdmin) == TRUE

\* @app_commands.checks.has_permissions(administrator=True): the framework runs
\* the callback only for a caller who holds the permission.
HasPermissions(callerAdmin) == callerAdmin

\* The framework dispatches a command with range-checked arguments; a failed
\* check goes to cog_app_command_error, which only answers the interaction.
Invoke ==
    /\ pc = "idle"
    /\ \E kind \in Commands, admin \in BOOLEAN, limit \in 0..MaxLimit, role \in BOOLEAN,
          del \in BOOLEAN, idOk \in BOOLEAN, known \in BOOLEAN, srcAdmin \in BOOLEAN :
          /\ kind # "transfer" => (~del /\ idOk /\ known /\ srcAdmin)
          /\ kind \notin {"transfer", "restore"} => limit = 0
          /\ kind \notin {"transfer", "restore", "verify"} => ~role
          /\ cmd' = [kind |-> kind, callerAdmin |-> admin, limit |-> limit, role |-> role,
                     delete_from_source |-> del,
                     srcIdOk |-> idOk, srcKnown |-> known, srcAdmin |-> srcAdmin]
          /\ IF HasPermissions(admin)
             THEN pc' = "defer" /\ UNCHANGED pending
             ELSE Followup("error", "cogError")
    /\ UNCHANGED <<jobVars, idx, counters, usernameBound, cur, side, delays, outVars, calls, seen>>

\* Variant: the bot's permission in the source guild is not tested.
ValidateSourceWithoutAdminTest ==
    IF ~cmd.srcIdOk \/ ~cmd.srcKnown
    THEN Followup("error", "validate")
    ELSE pc' = "fetch" /\ UNCHANGED pending

\* transfer_users, "Check if source server is valid": no await before the sends.
ValidateSource ==
    IF ~cmd.srcIdOk \/ ~cmd.srcKnown \/ ~cmd.srcAdmin
    THEN Followup("error", "validate")
    ELSE pc' = "fetch" /\ UNCHANGED pending

\* The handler a raise inside the command's outer try reaches: send, transfer,
\* restore and config wrap its followup.send in try/except, logs and verify do not.
CommandHandler ==
    IF cmd.kind \in {"logs", "verify"} THEN Followup("error", "bare") ELSE OuterHandler

\* send_verification: the bot may not post in the target channel.
CheckChannel ==
    \E canSend \in BOOLEAN :
        IF canSend THEN pc' = "sendUrl" /\ UNCHANGED pending
        ELSE Followup("error", "body")

\* await interaction.response.defer(...) returns or raises.
Defer ==
    /\ pc = "defer"
    /\ \E ok \in BOOLEAN :
          IF ~ok THEN CommandHandler
          ELSE IF cmd.kind = "transfer" THEN ValidateSource
          ELSE IF cmd.kind = "restore" THEN pc' = "fetch" /\ UNCHANGED pending
          ELSE IF cmd.kind = "send" THEN CheckChannel
          ELSE pc' = "body" /\ UNCHANGED pending
    /\ UNCHANGED <<cmd, jobVars, idx, counters, usernameBound, cur, side, delays, outVars, calls, seen>>

\* await interaction.followup.send(...) (in cog_app_command_error before a
\* deferral: response.send_message) returns or raises; where a raise goes depends
\* on the try block the call is written in.
Send ==
    /\ pc = "send"
    /\ sent' = Bump(sent, pending.kind)
    /\ \E ok \in BOOLEAN :
          IF ok
          THEN /\ shown' = Bump(shown, pending.kind)
               /\ pc' = "done"
               /\ pending' = NoPending
               /\ UNCHANGED sendFails
          ELSE /\ sendFails' = Bump(sendFails, "followup")
               /\ UNCHANGED shown
               /\ IF pending.ctx = "fetchTry" THEN Followup("error", "fetchExcept")
                  ELSE IF pending.ctx \in {"outer", "cogError"}
                  THEN pc' = "done" /\ pending' = NoPending
                  ELSE IF pending.ctx = "bare" THEN Followup("error", "cogError")
                  ELSE CommandHandler
    /\ UNCHANGED <<cmd, jobVars, idx, counters, usernameBound, cur, side, delays, calls, seen>>

\* ---------------------------------------------------------------- fetch

\* Variant: resp.status is not tested; the body is read whatever the status.
TransferFetchedAnyStatus(status, answer) ==
    /\ fetchStatus' = status
    /\ IF status = "raised"
       THEN Followup("error", "fetchExcept") /\ UNCHANGED <<api, users>>
       ELSE /\ api' = answer
            /\ IF answer = <<>>
               THEN Followup("nothing", "fetchTry") /\ users' = answer
               ELSE /\ users' = ApplyLimit(answer, cmd.limit)
                    /\ pc' = "initial"
                    /\ UNCHANGED pending

\* transfer_users, "Get verified users from source server via API", once the GET
\* has returned (status, members) or raised, up to "Filter users if needed".
TransferFetched(status, answer) ==
    /\ fetchStatus' = status
    /\ IF status = "non200"
       THEN Followup("error", "fetchTry") /\ UNCHANGED <<api, users>>
       ELSE IF status = "raised"
       THEN Followup("error", "fetchExcept") /\ UNCHANGED <<api, users>>
       ELSE /\ api' = answer
            /\ IF answer = <<>>
               THEN Followup("nothing", "fetchTry") /\ users' = answer
               ELSE /\ users' = ApplyLimit(answer, cmd.limit)
                    /\ pc' = "initial"
                    /\ UNCHANGED pending

\* async with self.session.get(.../api/dashboard/server/{id}/members) as resp
TransferFetch ==
    /\ pc = "fetch" /\ cmd.kind = "transfer"
    /\ \/ \E status \in {"non200", "raised"} : TransferFetched(status, <<>>)
       \/ \E answer \in TransferAnswers : TransferFetched("ok", answer)
    /\ UNCHANGED <<cmd, idx, counters, usernameBound, cur, side, delays, outVars, calls, seen>>

\* Variant: the list is not tested for emptiness again after the filter.
RestoreFetchedOneEmptyTest(status, answer) ==
    /\ fetchStatus' = status
    /\ IF status = "non200"
       THEN Followup("error", "body") /\ UNCHANGED <<api, users>>
       ELSE IF status = "raised"
       THEN OuterHandler /\ UNCHANGED <<api, users>>
       ELSE /\ api' = answer
            /\ IF answer = <<>>
               THEN Followup("nothing", "body") /\ users' = answer
               ELSE /\ users' = ApplyLimit(NotRestored(answer), cmd.limit)
                    /\ pc' = "initial"
                    /\ UNCHANGED pending

\* Variant: the limit is applied before the filter.
RestoreFetchedLimitFirst(status, answer) ==
    /\ fetchStatus' = status
    /\ IF status = "non200"
       THEN Followup("error", "body") /\ UNCHANGED <<api, users>>
       ELSE IF status = "raised"
       THEN OuterHandler /\ UNCHANGED <<api, users>>
       ELSE /\ api' = answer
            /\ IF answer = <<>>
               THEN Followup("nothing", "body") /\ users' = answer
               ELSE IF NotRestored(ApplyLimit(answer, cmd.limit)) = <<>>
               THEN Followup("nothing", "body") /\ users' = <<>>
               ELSE /\ users' = NotRestored(ApplyLimit(answer, cmd.limit))
                    /\ pc' = "initial"
                    /\ UNCHANGED pending

\* restore_members, "Get verified users from API" to "Apply limit if specified",
\* once the GET has returned (status, users) or raised.
RestoreFetched(status, answer) ==
    /\ fetchStatus' = status
    /\ IF status = "non200"
       THEN Followup("error", "body") /\ UNCHANGED <<api, users>>
       ELSE IF status = "raised"
       THEN OuterHandler /\ UNCHANGED <<api, users>>
       ELSE /\ api' = answer
            /\ IF answer = <<>>
               THEN Followup("nothing", "body") /\ users' = answer
               ELSE IF NotRestored(answer) = <<>>
               THEN Followup("nothing", "body") /\ users' = NotRestored(answer)
               ELSE /\ users' = ApplyLimit(NotRestored(answer), cmd.limit)
                    /\ pc' = "initial"
                    /\ UNCHANGED pending

\* async with self.session.get(.../api/bot/guild/{id}/verified) as resp
RestoreFetch ==
    /\ pc = "fetch" /\ cmd.kind = "restore"
    /\ \/ \E status \in {"non200", "raised"} : RestoreFetched(status, <<>>)
       \/ \E answer \in RestoreAnswers : RestoreFetched("ok", answer)
    /\ UNCHANGED <<cmd, idx, counters, usernameBound, cur, side, delays, outVars, calls, seen>>

\* await interaction.edit_original_response(embed=embed): the initial progress
\* embed, then the counters are set to 0 and the loop starts.
InitialProgress ==
    /\ pc = "initial"
    /\ sent' = Bump(sent, "initial")
    /\ \E ok \in BOOLEAN :
          IF ok
          THEN /\ shown' = Bump(shown, "initial")
               /\ pc' = "lookup"
               /\ idx' = 1
               /\ UNCHANGED <<sendFails, pending>>
          ELSE /\ sendFails' = Bump(sendFails, "initial")
               /\ OuterHandler
               /\ UNCHANGED <<shown, idx>>
    /\ UNCHANGED <<cmd, jobVars, counters, usernameBound, cur, side, delays, calls, seen>>

\* ---------------------------------------------------------------- transfer loop

\* Variant: a member who is about to get the role is not counted as already present.
CountAlreadyMemberWithoutRole ==
    already_member' = already_member + (IF cmd.role THEN 0 ELSE 1)

\* already_member += 1, right after the lookup in the target guild returned.
CountAlreadyMember == already_member' = already_member + 1

\* Variant: the removal is attempted whatever delete_from_source says.
AfterTransferredAlwaysRemove(count) == "remove"

\* Where transfer_users goes once transferred has been incremented.
AfterTransferred(count) ==
    IF cmd.delete_from_source THEN "remove"
    ELSE IF ProgressDue(count) THEN "progress" ELSE "delay"

\* transfer_users, loop body up to the member lookup in the target guild:
\* await interaction.guild.fetch_member(int(user_id)) returns or raises.
TransferLookup ==
    /\ pc = "lookup" /\ cmd.kind = "transfer"
    /\ IF ~users[idx].idOk
       THEN \* int(user_id) raises; it is not discord.NotFound
            /\ seen' = Bump(seen, "badId")
            /\ CandidateFailed
            /\ UNCHANGED <<succeeded, already_member, calls>>
       ELSE /\ calls' = Bump(calls, "lookup")
            /\ \/ /\ seen' = Bump(seen, "found")
                  /\ CountAlreadyMember
                  /\ cur' = [found |-> TRUE, hasRole |-> FALSE]
                  /\ side' = side
                  /\ idx' = idx
                  /\ IF cmd.role
                     THEN pc' = "addRole" /\ UNCHANGED succeeded
                     ELSE /\ succeeded' = succeeded + 1
                          /\ pc' = AfterTransferred(succeeded + 1)
                  /\ UNCHANGED failed
               \/ /\ seen' = Bump(seen, "notFound")
                  /\ CandidateFailed
                  /\ UNCHANGED <<succeeded, already_member>>
               \/ /\ seen' = Bump(seen, "lookupErr")
                  /\ CandidateFailed
                  /\ UNCHANGED <<succeeded, already_member>>
    /\ UNCHANGED <<cmd, jobVars, usernameBound, delays, pending, outVars>>

\* await target_member.add_roles(assign_role, ...) returns or raises.
TransferAddRole ==
    /\ pc = "addRole" /\ cmd.kind = "transfer"
    /\ calls' = Bump(calls, "role")
    /\ \/ /\ seen' = Bump(seen, "roleOk")
          /\ succeeded' = succeeded + 1
          /\ pc' = AfterTransferred(succeeded + 1)
          /\ UNCHANGED <<failed, idx, cur, side>>
       \/ /\ seen' = Bump(seen, "roleErr")
          /\ CandidateFailed
          /\ UNCHANGED succeeded
    /\ UNCHANGED <<cmd, jobVars, already_member, usernameBound, delays, pending, outVars>>

\* "Remove from source server if requested": source_guild.fetch_member, then
\* source_member.kick; whatever either raises is passed over.
RemoveFromSource ==
    /\ pc = "remove" /\ cmd.kind = "transfer"
    /\ \/ /\ calls' = Bump(calls, "srcLookup")
          /\ side' = "failed"
       \/ /\ calls' = Bump(Bump(calls, "srcLookup"), "kick")
          /\ side' \in {"ok", "failed"}
    /\ pc' = IF ProgressDue(succeeded) THEN "progress" ELSE "delay"
    /\ UNCHANGED <<cmd, jobVars, idx, counters, usernameBound, cur, delays, pending, outVars,
                   seen>>

\* transfer_users: await interaction.edit_original_response(embed=progress_embed)
\* returns or raises, inside the per-candidate try.
TransferProgress ==
    /\ pc = "progress" /\ cmd.kind = "transfer"
    /\ sent' = Bump(sent, "progress")
    /\ \E ok \in BOOLEAN :
          IF ok
          THEN /\ shown' = Bump(shown, "progress")
               /\ pc' = "delay"
               /\ UNCHANGED <<sendFails, failed, idx, cur, side>>
          ELSE /\ sendFails' = Bump(sendFails, "progress")
               /\ CandidateFailed
               /\ UNCHANGED shown
    /\ UNCHANGED <<cmd, jobVars, succeeded, already_member, usernameBound, delays, pending,
                   calls, seen>>

\* Variant: the loop body ends without the sleep.
TransferWithoutDelay ==
    /\ pc = "delay" /\ cmd.kind = "transfer"
    /\ NextCandidate
    /\ UNCHANGED <<cmd, jobVars, counters, usernameBound, delays, pending, outVars, calls, seen>>

\* transfer_users: await asyncio.sleep(0.5) returns; the loop body ends.
TransferDelay ==
    /\ pc = "delay" /\ cmd.kind = "transfer"
    /\ delays' = delays + 1
    /\ NextCandidate
    /\ UNCHANGED <<cmd, jobVars, counters, usernameBound, pending, outVars, calls, seen>>

\* ---------------------------------------------------------------- restore loop

\* Variant: the loop body goes from the count straight to the delay.
AfterRestoredUnmarked == "delay"

\* Where restore_members goes once restored_count has been incremented:
\* "Mark as restored in API".
AfterRestored == "mark"

\* restore_members, loop body up to the member lookup:
\* user_id = int(user['discord_id']); username = ...; await fetch_member(user_id).
RestoreLookup ==
    /\ pc = "lookup" /\ cmd.kind = "restore"
    /\ IF ~users[idx].idOk
       THEN \* int(...) raises before username is assigned in this iteration;
            \* the handler's f-string reads username
            /\ seen' = Bump(seen, "badId")
            /\ IF usernameBound
               THEN CandidateFailed /\ UNCHANGED pending
               ELSE OuterHandler /\ UNCHANGED <<failed, idx, cur, side>>
            /\ UNCHANGED <<succeeded, calls, usernameBound>>
       ELSE /\ usernameBound' = TRUE
            /\ calls' = Bump(calls, "lookup")
            /\ \/ \E holds \in BOOLEAN :
                     /\ seen' = Bump(seen, "found")
                     /\ cur' = [found |-> TRUE, hasRole |-> holds]
                     /\ side' = side
                     /\ idx' = idx
                     /\ IF NeedsRole(cmd.role, cur')
                        THEN pc' = "addRole" /\ UNCHANGED succeeded
                        ELSE succeeded' = succeeded + 1 /\ pc' = AfterRestored
                     /\ UNCHANGED failed
               \/ /\ seen' = Bump(seen, "notFound")
                  /\ CandidateFailed
                  /\ UNCHANGED succeeded
               \/ /\ seen' = Bump(seen, "lookupErr")
                  /\ CandidateFailed
                  /\ UNCHANGED succeeded
            /\ UNCHANGED pending
    /\ UNCHANGED <<cmd, jobVars, already_member, delays, outVars>>

\* await member.add_roles(role, reason="Verification restoration") returns or raises.
RestoreAddRole ==
    /\ pc = "addRole" /\ cmd.kind = "restore"
    /\ calls' = Bump(calls, "role")
    /\ \/ /\ seen' = Bump(seen, "roleOk")
          /\ succeeded' = succeeded + 1
          /\ pc' = AfterRestored
          /\ UNCHANGED <<failed, idx, cur, side>>
       \/ /\ seen' = Bump(seen, "roleErr")
          /\ CandidateFailed
          /\ UNCHANGED succeeded
    /\ UNCHANGED <<cmd, jobVars, already_member, usernameBound, delays, pending, outVars>>

\* Variant: the POST is not wrapped in try/except.
MarkFailedRaises == CandidateFailed

\* The "except: pass" around the POST (and the logged non-200 answer): nothing
\* but the loop body going on.
MarkFailed ==
    /\ side' = "failed"
    /\ pc' = "delay"
    /\ UNCHANGED <<idx, failed, cur>>

\* "Mark as restored in API": the POST returns 200, returns another status
\* (logged) or raises (passed over).
MarkRestored ==
    /\ pc = "mark" /\ cmd.kind = "restore"
    /\ calls' = Bump(calls, "mark")
    /\ \/ /\ side' = "ok"
          /\ pc' = "delay"
          /\ UNCHANGED <<idx, failed, cur>>
       \/ MarkFailed
    /\ UNCHANGED <<cmd, jobVars, succeeded, already_member, usernameBound, delays, pending,
                   outVars, seen>>

\* restore_members: await asyncio.sleep(0.5) returns, then the progress test.
RestoreDelay ==
    /\ pc = "delay" /\ cmd.kind = "restore"
    /\ delays' = delays + 1
    /\ IF ProgressDue(succeeded)
       THEN pc' = "progress" /\ UNCHANGED <<idx, cur, side>>
       ELSE NextCandidate
    /\ UNCHANGED <<cmd, jobVars, counters, usernameBound, pending, outVars, calls, seen>>

\* restore_members: await interaction.edit_original_response(embed=progress_embed)
\* returns or raises, inside the per-candidate try.
RestoreProgress ==
    /\ pc = "progress" /\ cmd.kind = "restore"
    /\ sent' = Bump(sent, "progress")
    /\ \E ok \in BOOLEAN :
          IF ok
          THEN /\ shown' = Bump(shown, "progress")
               /\ NextCandidate
               /\ UNCHANGED <<sendFails, failed>>
          ELSE /\ sendFails' = Bump(sendFails, "progress")
               /\ CandidateFailed
               /\ UNCHANGED shown
    /\ UNCHANGED <<cmd, jobVars, succeeded, already_member, usernameBound, delays, pending,
                   calls, seen>>

\* ---------------------------------------------------------------- end

\* await interaction.edit_original_response(embed=final_embed) returns or raises.
FinalSummary ==
    /\ pc = "final"
    /\ sent' = Bump(sent, "summary")
    /\ \E ok \in BOOLEAN :
          IF ok
          THEN /\ shown' = Bump(shown, "summary")
               /\ pc' = "done"
               /\ UNCHANGED <<sendFails, pending>>
          ELSE /\ sendFails' = Bump(sendFails, "summary")
               /\ OuterHandler
               /\ UNCHANGED shown
    /\ UNCHANGED <<cmd, jobVars, idx, counters, usernameBound, cur, side, delays, calls, seen>>

\* ---------------------------------------------------------------- other commands

\* send_verification: the GET of the verification URL; every outcome leaves a URL.
SendGetUrl ==
    /\ pc = "sendUrl" /\ cmd.kind = "send"
    /\ pc' = "sendEmbed"
    /\ UNCHANGED <<cmd, jobVars, idx, counters, usernameBound, cur, side, delays, pending, outVars,
                   calls, seen>>

\* send_verification: await target_channel.send(embed=embed, view=view).
SendEmbed ==
    /\ pc = "sendEmbed" /\ cmd.kind = "send"
    /\ calls' = Bump(calls, "channel")
    /\ \E ok \in BOOLEAN : IF ok THEN Followup("reply", "body") ELSE CommandHandler
    /\ UNCHANGED <<cmd, jobVars, idx, counters, usernameBound, cur, side, delays, outVars, seen>>

\* configure_bot: the POST of the configuration returns 200, another status
\* (raise Exception) or raises.
ConfigSave ==
    /\ pc = "body" /\ cmd.kind = "config"
    /\ calls' = Bump(calls, "post")
    /\ \E ok \in BOOLEAN : IF ok THEN Followup("reply", "body") ELSE CommandHandler
    /\ UNCHANGED <<cmd, jobVars, idx, counters, usernameBound, cur, side, delays, outVars, seen>>

\* show_logs: the GET of the logs returns (logs or none) or raises.
ShowLogs ==
    /\ pc = "body" /\ cmd.kind = "logs"
    /\ \/ Followup("reply", "body")
       \/ Followup("nothing", "body")
       \/ CommandHandler
    /\ UNCHANGED <<cmd, jobVars, idx, counters, usernameBound, cur, side, delays, outVars, calls, seen>>

\* manual_verify: the POST to /api/bot/verify-manual.
VerifyRegister ==
    /\ pc = "body" /\ cmd.kind = "verify"
    /\ calls' = Bump(calls, "post")
    /\ \/ Followup("error", "body")
       \/ CommandHandler
       \/ pc' = (IF cmd.role THEN "verifyRole" ELSE "verifyMark") /\ UNCHANGED pending
    /\ UNCHANGED <<cmd, jobVars, idx, counters, usernameBound, cur, side, delays, outVars, seen>>

\* manual_verify: await user.add_roles(role, ...); a raise is logged.
VerifyAddRole ==
    /\ pc = "verifyRole" /\ cmd.kind = "verify"
    /\ calls' = Bump(calls, "role")
    /\ pc' = "verifyMark"
    /\ UNCHANGED <<cmd, jobVars, idx, counters, usernameBound, cur, side, delays, pending, outVars, seen>>

\* manual_verify: the POST to /api/bot/guild/{id}/restore returns or raises.
VerifyMark ==
    /\ pc = "verifyMark" /\ cmd.kind = "verify"
    /\ calls' = Bump(calls, "mark")
    /\ \E ok \in BOOLEAN : IF ok THEN Followup("reply", "body") ELSE CommandHandler
    /\ UNCHANGED <<cmd, jobVars, idx, counters, usernameBound, cur, side, delays, outVars, seen>>

Next ==
    \/ Invoke /\ UNCHANGED pairVars
    \/ Defer /\ UNCHANGED pairVars
    \/ Send /\ UNCHANGED pairVars
    \/ TransferFetch /\ UNCHANGED pairVars
    \/ RestoreFetch /\ UNCHANGED pairVars
    \/ InitialProgress /\ UNCHANGED pairVars
    \/ TransferLookup /\ UNCHANGED pairVars
    \/ TransferAddRole /\ UNCHANGED pairVars
    \/ RemoveFromSource /\ UNCHANGED pairVars
    \/ TransferProgress /\ UNCHANGED pairVars
    \/ TransferDelay /\ UNCHANGED pairVars
    \/ RestoreLookup /\ UNCHANGED pairVars
    \/ RestoreAddRole /\ UNCHANGED pairVars
    \/ MarkRestored /\ UNCHANGED pairVars
    \/ RestoreDelay /\ UNCHANGED pairVars
    \/ RestoreProgress /\ UNCHANGED pairVars
    \/ FinalSummary /\ UNCHANGED pairVars
    \/ SendGetUrl /\ UNCHANGED pairVars
    \/ SendEmbed /\ UNCHANGED pairVars
    \/ ConfigSave /\ UNCHANGED pairVars
    \/ ShowLogs /\ UNCHANGED pairVars
    \/ VerifyRegister /\ UNCHANGED pairVars
    \/ VerifyAddRole /\ UNCHANGED pairVars
    \/ VerifyMark /\ UNCHANGED pairVars

Spec == Init /\ [][Next]_vars

\* ---------------------------------------------------------------- two invocations

\* Variant: the counters are attributes of the one cog instance.
CountersOnCog(j) == 1

\* Whose counters invocation j reads and writes: transferred, already_member,
\* failed (restored_count, failed_count) are locals of the coroutine, so each
\* call of the command has its own.
CountersOf(j) == j

Count(j, field) ==
    jobCounters' = [jobCounters EXCEPT ![CountersOf(j)][field] = @ + 1]

Received(j, field) == answers' = [answers EXCEPT ![j][field] = @ + 1]

\* The for loop of invocation j moves to the next element, or ends.
PairNextCandidate(j) ==
    frames' = [frames EXCEPT ![j].i = @ + 1,
                             ![j].member = NoMember,
                             ![j].pc = IF frames[j].i < Len(frames[j].users)
                                       THEN "lookup" ELSE "final"]

\* After the success count: the best-effort side call if there is one (the
\* removal when delete_from_source, the restore mark), else the sleep.  Lists
\* are shorter than ProgressEvery here, so no progress update comes due.
PairAfterSucceeded(j) ==
    frames' = [frames EXCEPT ![j].pc =
                  IF frames[j].kind = "restore" \/ frames[j].delete_from_source
                  THEN "side" ELSE "delay"]

\* Invocation j is called and its candidate fetch returns a non-empty list:
\* users is a new list bound to a local of this call.
PairFetch(j) ==
    /\ frames[j].pc = "idle"
    /\ \E kind \in {"transfer", "restore"}, n \in 1..PairLen, role \in BOOLEAN,
          del \in BOOLEAN :
          /\ kind = "restore" => ~del
          /\ frames' = [frames EXCEPT ![j] =
                           [NoFrame EXCEPT !.pc = "initial", !.kind = kind, !.role = role,
                                           !.delete_from_source = del,
                                           !.users = [k \in 1..n |-> MemberRecord(k, FALSE, TRUE)]]]
    /\ UNCHANGED <<jobCounters, answers, soloVars>>

\* The initial progress edit of invocation j returns: the counters are set to
\* zero and the loop begins.
PairInitialProgress(j) ==
    /\ frames[j].pc = "initial"
    /\ jobCounters' = [jobCounters EXCEPT ![CountersOf(j)] = ZeroCounters]
    /\ frames' = [frames EXCEPT ![j].pc = "lookup", ![j].i = 1]
    /\ UNCHANGED <<answers, soloVars>>

\* The member lookup of invocation j returns a member, or raises (NotFound or
\* anything else: both count the candidate as failed and go on).
PairLookup(j) ==
    /\ frames[j].pc = "lookup"
    /\ \/ \E hasRole \in BOOLEAN :
            LET member == [found |-> TRUE, hasRole |-> hasRole] IN
            /\ Received(j, "found")
            /\ IF frames[j].kind = "transfer"
               THEN IF frames[j].role
                    THEN /\ Count(j, "already_member")
                         /\ frames' = [frames EXCEPT ![j].pc = "addRole",
                                                     ![j].member = member]
                    ELSE /\ jobCounters' =
                               [jobCounters EXCEPT
                                   ![CountersOf(j)].already_member = @ + 1,
                                   ![CountersOf(j)].succeeded = @ + 1]
                         /\ PairAfterSucceeded(j)
               ELSE IF NeedsRole(frames[j].role, member)
                    THEN /\ frames' = [frames EXCEPT ![j].pc = "addRole",
                                                     ![j].member = member]
                         /\ UNCHANGED jobCounters
                    ELSE /\ Count(j, "succeeded")
                         /\ PairAfterSucceeded(j)
       \/ /\ Received(j, "lost")
          /\ Count(j, "failed")
          /\ PairNextCandidate(j)
    /\ UNCHANGED soloVars

\* add_roles of invocation j returns or raises.
PairAddRole(j) ==
    /\ frames[j].pc = "addRole"
    /\ \/ /\ Received(j, "roleOk")
          /\ Count(j, "succeeded")
          /\ PairAfterSucceeded(j)
       \/ /\ Received(j, "roleErr")
          /\ Count(j, "failed")
          /\ PairNextCandidate(j)
    /\ UNCHANGED soloVars

\* The best-effort side call of invocation j returns or raises: nothing changes.
PairSideCall(j) ==
    /\ frames[j].pc = "side"
    /\ frames' = [frames EXCEPT ![j].pc = "delay"]
    /\ UNCHANGED <<jobCounters, answers, soloVars>>

\* asyncio.sleep(0.5) of invocation j returns; the loop body ends.
PairDelay(j) ==
    /\ frames[j].pc = "delay"
    /\ PairNextCandidate(j)
    /\ UNCHANGED <<jobCounters, answers, soloVars>>

\* Invocation j builds its final summary from its counters.
PairFinalSummary(j) ==
    /\ frames[j].pc = "final"
    /\ frames' = [frames EXCEPT
                     ![j].pc = "done",
                     ![j].reported = <<jobCounters[CountersOf(j)].succeeded,
                                       jobCounters[CountersOf(j)].already_member,
                                       jobCounters[CountersOf(j)].failed>>]
    /\ UNCHANGED <<jobCounters, answers, soloVars>>

\* Every await is a suspension point: the event loop resumes either invocation.
PairNext ==
    \/ \E j \in Jobs : PairFetch(j)
    \/ \E j \in Jobs : PairInitialProgress(j)
    \/ \E j \in Jobs : PairLookup(j)
    \/ \E j \in Jobs : PairAddRole(j)
    \/ \E j \in Jobs : PairSideCall(j)
    \/ \E j \in Jobs : PairDelay(j)
    \/ \E j \in Jobs : PairFinalSummary(j)

PairSpec == Init /\ [][PairNext]_vars

\* ---------------------------------------------------------------- properties

\* No per-candidate external call has been issued.
NoCandidateCalls == \A k \in DOMAIN calls : calls[k] = 0

\* The final summary has been handed to the interaction.
SummaryEmitted == sent["summary"] > 0

\* The candidates the API returned that the command considers at all.
Eligible == IF cmd.kind = "restore" THEN SelectSeq(api, LAMBDA u : ~u.restored) ELSE api

\* C1 (as stated): at the final summary succeeded + alreadyPresent + failed equals
\* the number of candidates processed, which equals the total.
C1_ThreeBucketsSumToTotal ==
    SummaryEmitted =>
        /\ succeeded + already_member + failed = idx - 1
        /\ idx - 1 = Len(users)

\* C1 (amended): at the final summary every candidate left after the filter and the
\* limit has been processed once, succeeded + failed equals that total plus the
\* number of periodic progress updates whose delivery raised, and alreadyPresent is
\* no separate bucket: it counts every candidate found in the target guild, the
\* succeeded ones among them (a restore keeps no such counter).
C1_CountsAtSummary ==
    SummaryEmitted =>
        /\ idx - 1 = Len(users)
        /\ seen["badId"] + calls["lookup"] = Len(users)
        /\ succeeded + failed = Len(users) + sendFails["progress"]
        /\ succeeded <= Len(users)
        /\ IF cmd.kind = "transfer"
           THEN /\ already_member = seen["found"]
                /\ succeeded <= already_member
                /\ already_member <= Len(users)
           ELSE already_member = 0

C1_Witness ==
    /\ pc = "done" /\ shown["summary"] = 1
    /\ cmd.kind = "transfer"
    /\ succeeded > 0 /\ failed > 0 /\ already_member > succeeded
    /\ succeeded + already_member + failed > Len(users)

\* One step in which processing the current candidate raised: at the id parse, at
\* the member lookup (not found, or another error) or at the role assignment.
CandidateRaised ==
    \E k \in {"badId", "notFound", "lookupErr", "roleErr"} : seen'[k] = seen[k] + 1

\* C2: an exception raised while processing one candidate adds exactly one to
\* failed and the loop goes on to the next candidate (or to the summary).
C2_ExceptionIsolated ==
    [][CandidateRaised =>
          /\ failed' = failed + 1
          /\ succeeded' = succeeded
          /\ idx' = idx + 1
          /\ pc' = IF idx < Len(users) THEN "lookup" ELSE "final"]_vars

FetchFailed == fetchStatus \in {"non200", "raised"}

NothingReported ==
    /\ sent["initial"] = 0 /\ sent["progress"] = 0 /\ sent["summary"] = 0
    /\ succeeded = 0 /\ already_member = 0 /\ failed = 0 /\ idx = 0

\* C3 (as stated): a job whose candidate fetch failed ends with exactly one error
\* message visible to the user, no per-candidate call, no counters and no summary.
C3_ExactlyOneVisibleError ==
    (FetchFailed /\ pc = "done") =>
        /\ shown["error"] = 1
        /\ NoCandidateCalls
        /\ NothingReported

\* C3 (amended): after a failed candidate fetch the job issues no per-candidate
\* call, reports no counters, progress or summary, and at most one error message
\* becomes visible to the user: exactly one, sent once, when no delivery raises,
\* and none only when every attempt to send it raised.
C3_FetchFailure ==
    FetchFailed =>
        /\ NoCandidateCalls
        /\ NothingReported
        /\ sent["nothing"] = 0
        /\ shown["error"] <= 1
        /\ pc \in {"send", "done"}
        /\ pc = "done" =>
              /\ sent["error"] >= 1
              /\ sendFails["followup"] = 0 => (shown["error"] = 1 /\ sent["error"] = 1)
              /\ shown["error"] = 0 => sendFails["followup"] = sent["error"]

C3_Witness ==
    /\ pc = "done" /\ fetchStatus = "non200"
    /\ shown["error"] = 1 /\ sent["error"] = 1

EmptyCandidateList == fetchStatus = "ok" /\ users = <<>>

\* C4: with an empty candidate list (as returned, or after the restore filter) the
\* job sends exactly one "nothing to do" message, issues no per-candidate call,
\* sends no progress and no final summary, and ends.
C4_NothingToDo ==
    EmptyCandidateList =>
        /\ NoCandidateCalls
        /\ NothingReported
        /\ pc \in {"send", "done"}
        /\ sent["nothing"] = (IF pc = "send" /\ pending.kind = "nothing" THEN 0 ELSE 1)

C4_Witness ==
    /\ pc = "done" /\ EmptyCandidateList
    /\ cmd.kind = "restore" /\ api # <<>>
    /\ shown["nothing"] = 1 /\ sent["error"] = 0

\* The number of candidates a job with this limit iterates over.
ExpectedTotal ==
    IF cmd.limit > 0 /\ cmd.limit < Len(Eligible) THEN cmd.limit ELSE Len(Eligible)

\* The candidate fetch succeeded and left something to do.
JobStarted == fetchStatus = "ok" /\ users # <<>>

\* C5: with limit L and n candidates (after the restore filter) the job iterates
\* over exactly the first L of them in the API's order when 0 < L < n, and over
\* all n in that order otherwise; at the summary each of them has been processed.
C5_LimitKeepsPrefix ==
    JobStarted =>
        /\ Len(users) = ExpectedTotal
        /\ \A i \in 1..Len(users) : users[i] = Eligible[i]
        /\ idx <= Len(users) + 1
        /\ seen["badId"] + calls["lookup"] \in {idx - 1, idx}
        /\ SummaryEmitted =>
              /\ idx = ExpectedTotal + 1
              /\ seen["badId"] + calls["lookup"] = ExpectedTotal

C5_Witness ==
    /\ pc = "done" /\ shown["summary"] = 1
    /\ cmd.kind = "restore"
    /\ cmd.limit > 0 /\ cmd.limit < Len(Eligible) /\ Len(Eligible) < Len(api)
    /\ calls["lookup"] = cmd.limit

\* The loop is between two candidates, or over.
AtCandidateBoundary == pc \in {"lookup", "final", "done"} \/ (pc = "send" /\ idx > 0)

\* C6: a progress update is sent exactly when the count of succeeded candidates
\* reaches a positive multiple of 10, once for that count, and exactly one final
\* summary is sent once the loop is over.
C6_ProgressCadence ==
    /\ sent["progress"] <= succeeded \div ProgressEvery
    /\ pc = "progress" =>
          /\ succeeded > 0 /\ succeeded % ProgressEvery = 0
          /\ sent["progress"] = (succeeded \div ProgressEvery) - 1
    /\ AtCandidateBoundary => sent["progress"] = succeeded \div ProgressEvery
    /\ sent["summary"] <= 1
    /\ SummaryEmitted => (idx = Len(users) + 1 /\ JobStarted)
    /\ (JobStarted /\ idx = Len(users) + 1 /\ pc # "final") => sent["summary"] = 1

C6_Witness ==
    /\ pc = "done" /\ shown["summary"] = 1
    /\ succeeded = ProgressEvery /\ sent["progress"] = 1
    /\ failed > 0 /\ sendFails["progress"] = 0

\* The scenario of C7, at its final summary: a transfer over 3 candidates, two found
\* in the target guild (the role, if requested, assigned), one not found.
C7_Scenario ==
    /\ cmd.kind = "transfer" /\ SummaryEmitted
    /\ Len(users) = 3
    /\ seen["found"] = 2 /\ seen["notFound"] = 1
    /\ seen["roleErr"] = 0 /\ seen["lookupErr"] = 0 /\ seen["badId"] = 0

\* C7 (as stated): the scenario ends with processed 3, succeeded 2,
\* alreadyPresent 1, failed 1, total 3.
C7_OneAlreadyPresent ==
    C7_Scenario =>
        /\ idx - 1 = 3 /\ Len(users) = 3
        /\ succeeded = 2 /\ already_member = 1 /\ failed = 1

\* C7 (amended): the scenario ends with processed 3, succeeded 2,
\* alreadyPresent 2 (both candidates found in the target guild), failed 1, total 3.
C7_BothFoundAlreadyPresent ==
    C7_Scenario =>
        /\ idx - 1 = 3 /\ Len(users) = 3
        /\ succeeded = 2 /\ already_member = 2 /\ failed = 1

C7_Witness ==
    /\ C7_Scenario /\ pc = "done" /\ shown["summary"] = 1
    /\ cmd.role /\ seen["roleOk"] = 2

\* C8: a restore with a role never issues add_roles for a found member that
\* already holds the role, and counts that member as restored.
C8_NoReassignment ==
    [][cmd.kind = "restore" =>
          /\ calls'["role"] # calls["role"] => (cmd.role /\ cur.found /\ ~cur.hasRole)
          /\ (pc = "lookup" /\ cmd.role /\ cur'.found /\ cur'.hasRole) =>
                /\ succeeded' = succeeded + 1
                /\ failed' = failed
                /\ pc' = "mark"
                /\ calls'["role"] = calls["role"]]_vars

C8_Witness ==
    /\ cmd.kind = "restore" /\ cmd.role
    /\ pc = "mark" /\ cur.found /\ cur.hasRole
    /\ calls["role"] = 0 /\ succeeded = 1

SourceRejected ==
    cmd.kind = "transfer" /\ (~cmd.srcIdOk \/ ~cmd.srcKnown \/ ~cmd.srcAdmin)

\* C9 (as stated): a transfer whose source id is no integer, whose source guild is
\* unknown or in which the bot is no administrator ends with one error reported
\* and without any fetch, lookup, role assignment or removal.
C9_OneErrorNoStart ==
    (SourceRejected /\ pc = "done") =>
        /\ shown["error"] = 1 /\ sent["error"] = 1
        /\ fetchStatus = "none"
        /\ NoCandidateCalls

\* C9 (amended): such a transfer never starts (no candidate fetch, no lookup, no
\* role assignment, no removal, nothing but error messages sent) and at most one
\* error message becomes visible: exactly one, sent once, when no delivery raises,
\* and none only when every attempt to send it raised.
C9_SourcePreconditions ==
    SourceRejected =>
        /\ fetchStatus = "none" /\ api = <<>> /\ users = <<>>
        /\ NoCandidateCalls
        /\ NothingReported
        /\ sent["nothing"] = 0
        /\ shown["error"] <= 1
        /\ pc \in {"defer", "send", "done"}
        /\ pc = "done" =>
              /\ sent["error"] >= 1
              /\ sendFails["followup"] = 0 => (shown["error"] = 1 /\ sent["error"] = 1)
              /\ shown["error"] = 0 => sendFails["followup"] = sent["error"]

C9_Witness ==
    /\ pc = "done" /\ cmd.kind = "transfer"
    /\ cmd.srcIdOk /\ cmd.srcKnown /\ ~cmd.srcAdmin
    /\ shown["error"] = 1 /\ sent["error"] = 1

\* One step in which delivering the initial progress message or a periodic
\* progress update raised.
ProgressDeliveryFailed ==
    \/ sendFails'["initial"] # sendFails["initial"]
    \/ sendFails'["progress"] # sendFails["progress"]

\* C10: a failed delivery of a progress message changes no counter and does not
\* end the job: the loop starts, or goes on, as after a delivery that worked.
C10_DeliveryFailureSwallowed ==
    [][ProgressDeliveryFailed =>
          /\ succeeded' = succeeded
          /\ already_member' = already_member
          /\ failed' = failed
          /\ pc' \in {"lookup", "delay", "final"}]_vars

\* C11: an invocation of send, transfer, restore, config, logs or verify by a caller
\* who is no administrator assigns no role, removes no member, posts nothing to
\* the API (and sends nothing to a channel): the callback never runs.
C11_AdminOnly ==
    (cmd.kind \in Commands /\ ~cmd.callerAdmin) =>
        /\ calls["role"] = 0 /\ calls["kick"] = 0 /\ calls["srcLookup"] = 0
        /\ calls["post"] = 0 /\ calls["mark"] = 0 /\ calls["channel"] = 0
        /\ calls["lookup"] = 0
        /\ fetchStatus = "none"
        /\ pc \in {"send", "done"}

C11_Witness ==
    /\ cmd.kind = "verify" /\ ~cmd.callerAdmin
    /\ pc = "done" /\ sent["error"] = 1 /\ sent["reply"] = 0

IsJob == cmd.kind \in {"transfer", "restore"}

\* Candidates whose processing has begun: an id that did not parse, or a lookup.
Begun == seen["badId"] + calls["lookup"]

\* What invocation j reports when it runs alone and receives the responses in a:
\* <<succeeded, already_member, failed>>.
AloneReport(kind, role, a) ==
    <<IF kind = "transfer" /\ ~role THEN a.found
      ELSE IF kind = "transfer" THEN a.roleOk
      ELSE a.found - a.roleErr,
      IF kind = "transfer" THEN a.found ELSE 0,
      a.lost + a.roleErr>>

\* A step touches at most one invocation's candidate list, position and counters.
OneJobPerStep ==
    \A j \in Jobs :
        (frames'[j] # frames[j] \/ jobCounters'[j] # jobCounters[j]) =>
            \A k \in Jobs \ {j} :
                frames'[k] = frames[k] /\ jobCounters'[k] = jobCounters[k]

\* C12: two interleaved jobs share no mutable job state: every step changes the
\* candidate list and counters of one job only, a job's list never changes once
\* fetched, and the counts a finished job reports are those it would report alone
\* on the responses it received.
C12_JobsShareNoState ==
    /\ [](\A j \in Jobs :
            frames[j].pc = "done" =>
                frames[j].reported = AloneReport(frames[j].kind, frames[j].role, answers[j]))
    /\ [][OneJobPerStep]_vars
    /\ [][\A j \in Jobs :
            frames[j].pc \notin {"idle"} => frames'[j].users = frames[j].users]_vars

C12_Witness ==
    /\ frames[1].pc = "done" /\ frames[2].pc = "delay"
    /\ frames[1].kind = "transfer" /\ frames[2].kind = "restore"
    /\ frames[1].reported = <<1, 2, 1>>
    /\ jobCounters[2] = [succeeded |-> 1, already_member |-> 0, failed |-> 1]
    /\ Len(frames[1].users) = 2 /\ Len(frames[2].users) = 2

\* C13: the error outcome is reached only from the candidate fetch: a job that has
\* begun to iterate over its candidates sends no job-level error message.
C13_NoErrorOnceIterating ==
    (IsJob /\ Begun >= 1) => (pending.kind # "error" /\ sent["error"] = 0)

\* C14: when delivery of the final summary raises, the job ends there: no error
\* message is sent, or about to be sent, to the user.
C14_FinalFailureIgnored ==
    sendFails["summary"] > 0 => (pc = "done" /\ sent["error"] = 0)

\* One step in which a best-effort side call (the removal from the source guild,
\* the restore-mark POST) returned or raised.
SideCallEnded ==
    \/ calls'["srcLookup"] # calls["srcLookup"]
    \/ calls'["mark"] # calls["mark"]

\* C15: whatever a best-effort side call does, no counter changes, no message is
\* sent, the candidate stays counted as succeeded and the loop body goes on.
C15_SideCallsBestEffort ==
    [][(IsJob /\ SideCallEnded) =>
          /\ side' \in {"ok", "failed"}
          /\ cur.found /\ succeeded > 0
          /\ succeeded' = succeeded /\ already_member' = already_member
          /\ failed' = failed
          /\ sent' = sent /\ shown' = shown
          /\ idx' = idx
          /\ pc' \in {"progress", "delay"}]_vars

C15_Witness ==
    /\ cmd.kind = "restore" /\ side = "failed"
    /\ pc = "delay" /\ succeeded = 1 /\ failed = 0 /\ sent["error"] = 0

\* C16 (as stated): once a candidate is dealt with, a transfer job or a restore job
\* has issued one marking call to the API for every candidate counted as succeeded.
C16_EverySucceededMarked ==
    (IsJob /\ AtCandidateBoundary) => calls["mark"] = succeeded

\* C16 (amended): a restore job issues one marking POST for every candidate it
\* counts as restored, before it moves to the next candidate; a transfer job
\* issues no marking call at all.
C16_RestoreMarksTransferDoesNot ==
    IsJob =>
        IF cmd.kind = "restore"
        THEN calls["mark"] = succeeded - (IF pc = "mark" THEN 1 ELSE 0)
        ELSE calls["mark"] = 0 /\ calls["post"] = 0

C16_Witness ==
    /\ cmd.kind = "restore" /\ pc = "done" /\ shown["summary"] = 1
    /\ succeeded >= 2 /\ calls["mark"] = succeeded /\ failed >= 1

\* One step in which the removal from the source guild was attempted.
RemovalAttempted ==
    \/ calls'["srcLookup"] # calls["srcLookup"]
    \/ calls'["kick"] # calls["kick"]

\* C17: a transfer attempts a removal only when delete_from_source was requested
\* and only for the current candidate, found in the target guild and just counted
\* as succeeded (not as failed); never otherwise.
C17_RemovalOnlyAfterSuccess ==
    [][cmd.kind = "transfer" =>
          /\ RemovalAttempted =>
                /\ cmd.delete_from_source
                /\ pc = "remove" /\ cur.found
                /\ failed' = failed /\ idx' = idx
          /\ (pc' = "remove" /\ pc # "remove") =>
                /\ cmd.delete_from_source
                /\ succeeded' = succeeded + 1
                /\ failed' = failed
          /\ calls'["kick"] <= succeeded']_vars

C17_Witness ==
    /\ cmd.kind = "transfer" /\ cmd.delete_from_source
    /\ pc = "done" /\ shown["summary"] = 1
    /\ calls["kick"] >= 1 /\ failed >= 1 /\ calls["srcLookup"] = succeeded

\* C18: candidates are handled one after the other in list order: the calls of
\* candidate idx are the only ones in flight, every earlier candidate is over, and
\* no candidate is looked up (or given any other call) more than once.
C18_SequentialOnce ==
    (IsJob /\ idx >= 1) =>
        /\ Begun = IF pc \in {"lookup", "final"} THEN idx - 1
                   ELSE IF pc \in {"send", "done"} THEN Begun
                   ELSE idx
        /\ Begun <= idx /\ Begun <= Len(users)
        /\ \A k \in {"lookup", "role", "srcLookup", "kick", "mark"} : calls[k] <= Begun
        /\ (pc \in {"addRole", "remove", "mark", "progress", "delay"}) => cur.found

C18_Witness ==
    /\ IsJob /\ pc = "done" /\ shown["summary"] = 1
    /\ Len(users) = 3 /\ calls["lookup"] = 3
    /\ seen["lookupErr"] >= 1 /\ seen["notFound"] >= 1 /\ seen["found"] >= 1

\* C19 (as stated): one delay follows every candidate, whatever its outcome.
C19_DelayAfterEveryCandidate ==
    (IsJob /\ idx >= 1 /\ pc \in {"lookup", "final"}) => delays = idx - 1

\* C19 (amended): the delay is performed after a candidate counted as succeeded
\* (in a transfer, unless the progress update due for it raised) and after no
\* other: a candidate that is not found, or whose processing raises, is followed
\* by the next lookup at once.
C19_DelayAfterSuccessOnly ==
    IsJob =>
        IF cmd.kind = "transfer"
        THEN delays = succeeded - sendFails["progress"]
                      - (IF pc \in {"remove", "progress", "delay"} THEN 1 ELSE 0)
        ELSE delays = succeeded - (IF pc \in {"mark", "delay"} THEN 1 ELSE 0)

C19_Witness ==
    /\ IsJob /\ pc = "done" /\ shown["summary"] = 1
    /\ seen["notFound"] >= 1 /\ succeeded >= 1
    /\ delays = succeeded /\ delays < Len(users)

\* C20: a restore never iterates over a record whose restored flag is set, and the
\* limit cuts the list that is left after the filter.
C20_FilterThenLimit ==
    (cmd.kind = "restore" /\ fetchStatus = "ok") =>
        /\ \A i \in 1..Len(users) : ~users[i].restored
        /\ Len(users) = ExpectedTotal
        /\ \A i \in 1..Len(users) : users[i].id = Eligible[i].id
        /\ calls["lookup"] <= Len(users)

C20_Witness ==
    /\ cmd.kind = "restore" /\ pc = "done" /\ shown["summary"] = 1
    /\ api # <<>> /\ api[1].restored
    /\ cmd.limit = 1 /\ Len(Eligible) = 2
    /\ Len(users) = 1 /\ users[1].id = 2 /\ calls["lookup"] = 1

\* C21: when a transfer or a restore emits its final summary, every candidate is in
\* exactly one of the two buckets shown: succeeded + failed equals the number of
\* candidates of the job, whatever the lookups, the role assignments and the
\* progress deliveries did.
C21_EveryCandidateInOneBucket ==
    (IsJob /\ SummaryEmitted) => succeeded + failed = Len(users)

====
